---------------------------- MODULE Spec2Model ----------------------------
(***************************************************************************)
(* Jacket Load Distribution (src/app.py): a Streamlit script that is run   *)
(* again, top to bottom, after every widget interaction.  One action of    *)
(* the model is one such run of the script.                                *)
(*                                                                         *)
(* Numbers.  Pressures and minimum targets are kept in tenths (11.6 is     *)
(* 116).  A percentage is kept as the exact quotient [num, den] standing   *)
(* for num/den, and compared with a target by cross multiplication.        *)
(* Text.  A CSV field is a sequence of tokens: a string value is one       *)
(* token, a number is its sequence of characters.                          *)
(***************************************************************************)
EXTENDS Integers, Sequences, FiniteSets, TLC

VARIABLES
    jacket_id,      \* st.selectbox("Jacket ID")
    case,           \* st.radio("Case")
    pressures,      \* the four st.number_input values, leg -> tenths of a bar
    out,            \* what the run computed and rendered (targets, percentages, ...)
    show_register,  \* st.session_state["show_register"]
    notice,         \* result of the Save button in this run
    register_view,  \* the Pressure Register section of this run
    file,           \* REGISTER_FILE on disk
    sess            \* concurrent sessions inside save_pressures

vars == <<jacket_id, case, pressures, out, show_register, notice, register_view,
          file, sess>>

-----------------------------------------------------------------------------
(* Bounds *)

MaxRows == 2
NumSessions == 2

-----------------------------------------------------------------------------
(* DATA *)

LegOrder == <<"A", "B", "C", "D">>

Legs == {"A", "B", "C", "D"}

Cases == <<"EAC", "OBS">>

Targets(a, b, c, d) == [A |-> a, B |-> b, C |-> c, D |-> d]

JACKETS ==
    ( "G05" :> [EAC |-> Targets(116, 114, 229, 123), OBS |-> Targets(173, 201, 229, 170)] )
 @@ ( "H05" :> [EAC |-> Targets(116, 114, 229, 123), OBS |-> Targets(173, 201, 229, 170)] )
 @@ ( "J05" :> [EAC |-> Targets(116, 114, 229, 123), OBS |-> Targets(174, 201, 229, 169)] )
 @@ ( "D07 (Radar)" :> [EAC |-> Targets(118, 116, 226, 121), OBS |-> Targets(176, 204, 226, 166)] )

JacketKeys == <<"G05", "H05", "J05", "D07 (Radar)">>

LEG_LABELS == [A |-> "BP (A)", B |-> "BQ (B)", C |-> "AQ (C)", D |-> "AP (D)"]

Range(s) == {s[i] : i \in 1..Len(s)}

-----------------------------------------------------------------------------
(* INPUT WIDGETS *)

\* What the user may type into a pressure field (tenths of a bar).
TypedPressures == {-5, 0, 114, 116, 229, 541}

NumberInputNoMin(min_value, typed) == typed

\* st.number_input(..., min_value=0.0): only values >= min_value are committed.
NumberInput(min_value, typed) == {v \in typed : v >= min_value}

MinValue == 0

\* value of a number_input on the first run: min_value
DefaultPressure == MinValue

-----------------------------------------------------------------------------
(* CALCULATIONS *)

MinTargetsFallback(j, c) == JACKETS[JacketKeys[1]][Cases[1]]

\* min_targets = JACKETS[jacket_id][case]
MinTargets(j, c) == JACKETS[j][c]

RECURSIVE SumOver(_, _, _)
SumOver(f, order, i) ==
    IF i > Len(order) THEN 0 ELSE f[order[i]] + SumOver(f, order, i + 1)

\* total_pressure = sum(pressures.values())
TotalPressure(p) == SumOver(p, LegOrder, 1)

Zero == [num |-> 0, den |-> 1]

PercentagesNoGuard(p, total) == [k \in DOMAIN p |-> [num |-> 100 * p[k], den |-> total]]

PercentagesFraction(p, total) ==
    IF total > 0
    THEN [k \in DOMAIN p |-> [num |-> p[k], den |-> total]]
    ELSE [k \in DOMAIN p |-> Zero]

\* (v / total_pressure) * 100 per leg, or 0 for every leg when the total is 0
Percentages(p, total) ==
    IF total > 0
    THEN [k \in DOMAIN p |-> [num |-> 100 * p[k], den |-> total]]
    ELSE [k \in DOMAIN p |-> Zero]

\* q < t and q >= t for a quotient q and a value t in tenths
Lt(q, t) == q.num * 10 < t * q.den

Ge(q, t) == q.num * 10 >= t * q.den

\* colour of a leg box
leg_box(value, minimum) == IF Ge(value, minimum) THEN "#2ecc71" ELSE "#e74c3c"

RECURSIVE FailedFrom(_, _, _)
FailedFrom(pct, targets, i) ==
    IF i > Len(LegOrder) THEN <<>>
    ELSE (IF Lt(pct[LegOrder[i]], targets[LegOrder[i]])
          THEN <<LEG_LABELS[LegOrder[i]]>> ELSE <<>>)
         \o FailedFrom(pct, targets, i + 1)

RECURSIVE FailedFromLe(_, _, _)
FailedFromLe(pct, targets, i) ==
    IF i > Len(LegOrder) THEN <<>>
    ELSE (IF ~ (pct[LegOrder[i]].num * 10 > targets[LegOrder[i]] * pct[LegOrder[i]].den)
          THEN <<LEG_LABELS[LegOrder[i]]>> ELSE <<>>)
         \o FailedFromLe(pct, targets, i + 1)

FailedLe(pct, targets) == FailedFromLe(pct, targets, 1)

\* failed = [LEG_LABELS[k] for k in percentages if percentages[k] < min_targets[k]]
Failed(pct, targets) == FailedFrom(pct, targets, 1)

\* st.warning(...) if failed else st.success(...)
Banner(failed) == IF failed # <<>> THEN "warning" ELSE "success"

\* Everything the script computes and renders before the Data Logging section.
Render(j, c, p) ==
    LET mt    == MinTargets(j, c)
        total == TotalPressure(p)
        pct   == Percentages(p, total)
        fl    == Failed(pct, mt)
    IN  [ min_targets    |-> mt,
          total_pressure |-> total,
          percentages    |-> pct,
          colors         |-> [k \in Legs |-> leg_box(pct[k], mt[k])],
          failed         |-> fl,
          banner         |-> Banner(fl) ]

-----------------------------------------------------------------------------
(* CSV TEXT *)

DigitChars == <<"0", "1", "2", "3", "4", "5", "6", "7", "8", "9">>

IsDigit(ch) == ch \in Range(DigitChars)

DigitVal(ch) == CHOOSE d \in 0..9 : DigitChars[d + 1] = ch

RECURSIVE Digits(_)
Digits(n) ==
    IF n < 10 THEN <<DigitChars[n + 1]>>
    ELSE Digits(n \div 10) \o <<DigitChars[(n % 10) + 1]>>

RECURSIVE ParseNat(_)
ParseNat(ds) ==
    IF ds = <<>> THEN 0
    ELSE 10 * ParseNat(SubSeq(ds, 1, Len(ds) - 1)) + DigitVal(ds[Len(ds)])

\* the text to_csv writes for a float: repr(11.6) = "11.6", repr(0.0) = "0.0"
FormatFloat(n) ==
    IF n < 0
    THEN <<"-">> \o Digits((-n) \div 10) \o <<".">> \o <<DigitChars[((-n) % 10) + 1]>>
    ELSE Digits(n \div 10) \o <<".">> \o <<DigitChars[(n % 10) + 1]>>

Unsigned(f) == IF f # <<>> /\ f[1] = "-" THEN Tail(f) ELSE f

DotAt(f) == {i \in 1..Len(f) : f[i] = "."}

\* a field read_csv takes for a number: [-]digits[.digit]
IsNumberText(f) ==
    LET u == Unsigned(f)
    IN  /\ u # <<>>
        /\ \A i \in 1..Len(u) : IsDigit(u[i]) \/ u[i] = "."
        /\ IsDigit(u[1])
        /\ Cardinality(DotAt(u)) <= 1
        /\ \A i \in DotAt(u) : Len(u) - i <= 1

\* the float read_csv parses from a number field, in tenths
ParseFloat(f) ==
    LET u    == Unsigned(f)
        d    == IF DotAt(u) = {} THEN Len(u) + 1 ELSE CHOOSE i \in DotAt(u) : TRUE
        int  == ParseNat(SubSeq(u, 1, d - 1))
        frac == IF d < Len(u) THEN DigitVal(u[d + 1]) ELSE 0
        v    == 10 * int + frac
    IN  IF f[1] = "-" THEN -v ELSE v

-----------------------------------------------------------------------------
(* DATA FRAMES *)

\* A data frame: column names, one dtype per column, rows of values by column.
EmptyDataFrame == [columns |-> <<>>, dtypes |-> <<>>, rows |-> <<>>]

\* df.empty: some axis has length 0
DfEmpty(df) == Len(df.columns) = 0 \/ Len(df.rows) = 0

\* pd.DataFrame([new_row]) for a dict given as <<key, dtype, value>> entries
DataFrame(row) ==
    [ columns |-> [i \in 1..Len(row) |-> row[i][1]],
      dtypes  |-> [i \in 1..Len(row) |-> row[i][2]],
      rows    |-> << [i \in 1..Len(row) |-> row[i][3]] >> ]

\* pd.concat([df, new], ignore_index=True) for frames with the same columns
Concat(df, new) ==
    [ columns |-> df.columns,
      dtypes  |-> IF df.rows = <<>> THEN new.dtypes ELSE df.dtypes,
      rows    |-> df.rows \o new.rows ]

FormatValue(dtype, v) == IF dtype = "float64" THEN FormatFloat(v) ELSE <<v>>

\* df.to_csv(REGISTER_FILE, index=False): the header line, then one line per row
ToCsv(df) ==
    << [c \in 1..Len(df.columns) |-> <<df.columns[c]>>] >>
    \o [i \in 1..Len(df.rows) |->
          [c \in 1..Len(df.columns) |-> FormatValue(df.dtypes[c], df.rows[i][c])]]

\* pd.read_csv raises EmptyDataError on a file with no line
ReadCsvRaises(lines) == lines = <<>>

\* pd.read_csv(REGISTER_FILE): first line is the header, dtypes are inferred
ReadCsv(lines) ==
    LET data == Tail(lines)
        n    == Len(lines[1])
        dt   == [c \in 1..n |->
                   IF data # <<>> /\ \A i \in 1..Len(data) : IsNumberText(data[i][c])
                   THEN "float64" ELSE "object"]
    IN  [ columns |-> [c \in 1..n |-> lines[1][c][1]],
          dtypes  |-> dt,
          rows    |-> [i \in 1..Len(data) |->
                         [c \in 1..n |-> IF dt[c] = "float64"
                                         THEN ParseFloat(data[i][c])
                                         ELSE data[i][c][1]]] ]

-----------------------------------------------------------------------------
(* FUNCTIONS *)

NoFile == [exists |-> FALSE, lines |-> <<>>]

\* new_row of save_pressures, in the dict's insertion order
NewRow(j, c, now, p) ==
    << <<"Jacket ID", "object", j>>, <<"Case", "object", c>>,
       <<"DateTime", "object", now>>,
       <<"BP (A)", "float64", p["A"]>>, <<"BQ (B)", "float64", p["B"]>>,
       <<"AQ (C)", "float64", p["C"]>>, <<"AP (D)", "float64", p["D"]>> >>

\* save_pressures raises before it writes anything
SaveReadRaises(f) == f.exists /\ ReadCsvRaises(f.lines)

SaveFrameOverwrite(f, row) == DataFrame(row)

\* the frame save_pressures hands to to_csv
SaveFrame(f, row) ==
    IF f.exists THEN Concat(ReadCsv(f.lines), DataFrame(row)) ELSE DataFrame(row)

\* load_register()
load_register(f) == IF f.exists THEN ReadCsv(f.lines) ELSE EmptyDataFrame

LoadRaises(f) == f.exists /\ ReadCsvRaises(f.lines)

\* rows held by the storage, as load_register would return them
StoredRows(f) == IF f.exists /\ ~ ReadCsvRaises(f.lines) THEN ReadCsv(f.lines).rows ELSE <<>>

Hidden == [kind |-> "hidden", rows |-> <<>>]

RegisterViewAlwaysTable(show, f) ==
    IF ~ show THEN Hidden
    ELSE IF LoadRaises(f) THEN [kind |-> "exception", rows |-> <<>>]
    ELSE [kind |-> "table", rows |-> load_register(f).rows]

\* the Pressure Register section
RegisterView(show, f) ==
    IF ~ show THEN Hidden
    ELSE IF LoadRaises(f) THEN [kind |-> "exception", rows |-> <<>>]
    ELSE LET df == load_register(f)
         IN  IF DfEmpty(df) THEN [kind |-> "info", rows |-> <<>>]
             ELSE [kind |-> "table", rows |-> df.rows]

-----------------------------------------------------------------------------
(* THE SCRIPT, ONE RUN PER INTERACTION *)

\* datetime.now().strftime(...) values the runs may see
Times == {"2026-01-01 10:00:00"}

Idle == [pc |-> "idle", new |-> <<>>, df |-> EmptyDataFrame]

Sessions == 1..NumSessions

\* First run: every widget at its default, nothing clicked, no register file.
Init ==
    /\ jacket_id = JacketKeys[1]
    /\ case = Cases[1]
    /\ pressures = [k \in Legs |-> DefaultPressure]
    /\ out = Render(JacketKeys[1], Cases[1], [k \in Legs |-> DefaultPressure])
    /\ show_register = FALSE
    /\ notice = "none"
    /\ register_view = Hidden
    /\ file = NoFile
    /\ sess = [s \in Sessions |-> Idle]

\* A run in which the Save button was not clicked.
Rerun(j, c, p, show) ==
    /\ jacket_id' = j
    /\ case' = c
    /\ pressures' = p
    /\ out' = Render(j, c, p)
    /\ show_register' = show
    /\ notice' = "none"
    /\ register_view' = RegisterView(show, file)
    /\ UNCHANGED <<file, sess>>

SetJacket(j) ==
    /\ j # jacket_id
    /\ Rerun(j, case, pressures, show_register)

SetCase(c) ==
    /\ c # case
    /\ Rerun(jacket_id, c, pressures, show_register)

SetPressure(leg, v) ==
    /\ v # pressures[leg]
    /\ Rerun(jacket_id, case, [pressures EXCEPT ![leg] = v], show_register)

\* st.button("Register"): the flag is set and stays set
ClickRegister ==
    Rerun(jacket_id, case, pressures, TRUE)

\* The widgets and the results of a run in which Save was clicked.
SaveRun ==
    /\ out' = Render(jacket_id, case, pressures)
    /\ UNCHANGED <<jacket_id, case, pressures, show_register, sess>>

SaveDoneAlways(written, total) == TRUE

\* to_csv returned: every line of the frame was written
SaveDone(written, total) == written = total

\* st.button("Save Pressures"), the register file readable and writable:
\* `written` lines reach the disk; fewer than all when the write fails part-way.
ClickSave(now, written) ==
    /\ ~ SaveReadRaises(file)
    /\ Len(StoredRows(file)) < MaxRows
    /\ LET lines == ToCsv(SaveFrame(file, NewRow(jacket_id, case, now, pressures)))
       IN  /\ written \in 0..Len(lines)
           /\ file' = [exists |-> TRUE, lines |-> SubSeq(lines, 1, written)]
           /\ IF SaveDone(written, Len(lines))
              THEN /\ notice' = "saved"
                   /\ register_view' = RegisterView(show_register, file')
              ELSE /\ notice' = "exception"
                   /\ register_view' = Hidden
    /\ SaveRun

\* Save clicked, and read_csv or the opening of the file for writing raises:
\* the script stops at the exception, the file is as it was.
ClickSaveRaises ==
    /\ notice' = "exception"
    /\ register_view' = Hidden
    /\ file' = file
    /\ SaveRun

-----------------------------------------------------------------------------
(* SPECIFICATIONS *)

\* The calculator: every jacket, every case, the pressures of TypedPressures.
NextCalc ==
    \/ \E j \in Range(JacketKeys) : SetJacket(j)
    \/ \E c \in Range(Cases) : SetCase(c)
    \/ \E leg \in Legs, v \in NumberInput(MinValue, TypedPressures) : SetPressure(leg, v)

SpecCalc == Init /\ [][NextCalc]_vars

StoreTyped == {-5, 0, 116}

StoreLegs == {"A", "B", "C"}

\* The record store, one session: the default jacket and case, the pressures
\* of StoreTyped on the legs of StoreLegs (leg D stays at its default).
NextStore ==
    \/ \E leg \in StoreLegs, v \in NumberInput(MinValue, StoreTyped) : SetPressure(leg, v)
    \/ ClickRegister
    \/ \E now \in Times, w \in 0..(MaxRows + 1) : ClickSave(now, w)
    \/ ClickSaveRaises

SpecStore == Init /\ [][NextStore]_vars

-----------------------------------------------------------------------------
(* CONCURRENT SESSIONS *)

\* Streamlit runs the script of every browser session in a thread of its own,
\* so the statements of save_pressures of two sessions interleave.

ConcJackets == {"G05", "D07 (Radar)"}

ConcPressures == {Targets(0, 0, 0, 0), Targets(116, 114, 229, 541)}

\* lines 39-51: new_row is built and os.path.exists(REGISTER_FILE) evaluated
ConcBegin(s, j, c, p, now) ==
    /\ sess[s].pc = "idle"
    /\ sess' = [sess EXCEPT ![s] =
                  IF file.exists
                  THEN [pc |-> "read", new |-> NewRow(j, c, now, p), df |-> EmptyDataFrame]
                  ELSE [pc |-> "write", new |-> NewRow(j, c, now, p),
                        df |-> DataFrame(NewRow(j, c, now, p))]]
    /\ UNCHANGED <<jacket_id, case, pressures, out, show_register, notice,
                   register_view, file>>

\* lines 52-53: read_csv and concat
ConcRead(s) ==
    /\ sess[s].pc = "read"
    /\ ~ ReadCsvRaises(file.lines)
    /\ sess' = [sess EXCEPT ![s].pc = "write",
                            ![s].df = Concat(ReadCsv(file.lines), DataFrame(sess[s].new))]
    /\ UNCHANGED <<jacket_id, case, pressures, out, show_register, notice,
                   register_view, file>>

\* line 57: to_csv, then the success notice of line 204
ConcWrite(s) ==
    /\ sess[s].pc = "write"
    /\ file' = [exists |-> TRUE, lines |-> ToCsv(sess[s].df)]
    /\ sess' = [sess EXCEPT ![s].pc = "done"]
    /\ UNCHANGED <<jacket_id, case, pressures, out, show_register, notice,
                   register_view>>

NextConc ==
    \/ \E s \in Sessions, j \in ConcJackets, c \in Range(Cases),
          p \in ConcPressures, now \in Times : ConcBegin(s, j, c, p, now)
    \/ \E s \in Sessions : ConcRead(s)
    \/ \E s \in Sessions : ConcWrite(s)

SpecConc == Init /\ [][NextConc]_vars

-----------------------------------------------------------------------------
(* PROPERTIES *)

\* value of row i of a frame in the column called name
Cell(df, i, name) ==
    df.rows[i][CHOOSE c \in 1..Len(df.columns) : df.columns[c] = name]

IsPrefix(a, b) == Len(a) <= Len(b) /\ SubSeq(b, 1, Len(a)) = a

\* row i of the frame holds the reading (j, c, p), field for field
HoldsReading(df, i, j, c, p) ==
    /\ Cell(df, i, "Jacket ID") = j
    /\ Cell(df, i, "Case") = c
    /\ \A k \in Legs : Cell(df, i, LEG_LABELS[k]) = p[k]

AllZero == \A k \in Legs : pressures[k] = 0

\* leg k is below its target, from the inputs alone: 100 * p / total < target
Below(k) ==
    LET total == pressures["A"] + pressures["B"] + pressures["C"] + pressures["D"]
        t     == JACKETS[jacket_id][case][k]
    IN  IF total > 0 THEN 1000 * pressures[k] < t * total ELSE 0 < t

\* C1: a save that returns, followed by load_register, yields the rows stored
\* before plus one, and the last row is the saved reading, field for field.
C1_RoundTrip ==
    [][ notice' = "saved" =>
          LET before == StoredRows(file)
              after  == load_register(file')
          IN  /\ ~ LoadRaises(file')
              /\ Len(after.rows) = Len(before) + 1
              /\ HoldsReading(after, Len(after.rows), jacket_id, case, pressures)
              /\ Cell(after, Len(after.rows), "DateTime") \in Times ]_vars

C1_Witness ==
    /\ notice = "saved"
    /\ Len(StoredRows(file)) = 2
    /\ StoredRows(file)[1] # StoredRows(file)[2]
    /\ pressures = Targets(116, 0, 116, 0)

\* C2: the rows stored before a step are a prefix of the rows stored after it.
C2_AppendOnly == [][ IsPrefix(StoredRows(file), StoredRows(file')) ]_vars

\* C3: once every session's save_pressures has returned, the register holds
\* one row per session and the reading of each.
C3_NoLostUpdate ==
    (\A s \in Sessions : sess[s].pc = "done") =>
        /\ Len(StoredRows(file)) = NumSessions
        /\ \A s \in Sessions :
              DataFrame(sess[s].new).rows[1] \in Range(StoredRows(file))

\* C4: the success notice is shown only when the reading is the last stored row.
C4_SavedOnlyWhenStored ==
    notice = "saved" =>
        /\ ~ LoadRaises(file)
        /\ ~ DfEmpty(load_register(file))
        /\ HoldsReading(load_register(file), Len(load_register(file).rows),
                        jacket_id, case, pressures)

C4_Witness ==
    /\ notice = "exception"
    /\ file.exists
    /\ Len(file.lines) = 1
    /\ pressures["A"] = 116

\* C5: with no register file, load_register returns no row and raises nothing,
\* and a rendered register section shows the "No records available." info.
C5_EmptyRegister ==
    ~ file.exists =>
        /\ ~ LoadRaises(file)
        /\ load_register(file).rows = <<>>
        /\ (show_register /\ notice # "exception" => register_view.kind = "info")

C5_Witness ==
    /\ show_register
    /\ ~ file.exists
    /\ register_view.kind = "info"

C7_StrictBelow ==
    /\ out.failed = SelectSeq([i \in 1..4 |-> LEG_LABELS[LegOrder[i]]],
                              LAMBDA l : \E k \in Legs : LEG_LABELS[k] = l /\ Below(k))
    /\ \A k \in Legs :
          (out.colors[k] = "#2ecc71") <=> (LEG_LABELS[k] \notin Range(out.failed))
    /\ \A k \in Legs : out.colors[k] \in {"#2ecc71", "#e74c3c"}
    /\ (out.banner = "success") <=> (out.failed = <<>>)
    /\ (jacket_id = "G05" /\ case = "EAC" /\ pressures = Targets(116, 114, 229, 541)
          => out.banner = "success")

C7_Witness ==
    /\ jacket_id = "G05"
    /\ case = "EAC"
    /\ pressures = Targets(116, 114, 229, 541)
    /\ out.failed = <<>>
    /\ out.colors["A"] = "#2ecc71"

\* C8: with all pressures 0 every percentage is 0, nothing is divided by 0, the
\* failed legs are those with a positive target, which is all four, and the
\* verdict is the warning.
C8_ZeroLoad ==
    AllZero =>
        /\ \A k \in Legs : out.percentages[k].den # 0 /\ out.percentages[k].num = 0
        /\ Range(out.failed) = {LEG_LABELS[k] : k \in {l \in Legs : JACKETS[jacket_id][case][l] > 0}}
        /\ Len(out.failed) = 4
        /\ out.banner = "warning"

C8_Witness ==
    /\ AllZero
    /\ jacket_id = "D07 (Radar)"
    /\ case = "OBS"
    /\ out.banner = "warning"

\* C9: every jacket has an EAC and an OBS entry over the legs A-D, the selected
\* pair is always in the table, and the targets used are those of that pair.
C9_TableLookup ==
    /\ Range(JacketKeys) = DOMAIN JACKETS
    /\ \A j \in DOMAIN JACKETS :
          /\ DOMAIN JACKETS[j] = Range(Cases)
          /\ \A c \in DOMAIN JACKETS[j] : DOMAIN JACKETS[j][c] = Legs
    /\ jacket_id \in DOMAIN JACKETS
    /\ case \in DOMAIN JACKETS[jacket_id]
    /\ out.min_targets = JACKETS[jacket_id][case]

C9_Witness ==
    /\ jacket_id = "J05"
    /\ case = "OBS"
    /\ out.min_targets["A"] = 174

\* C10: the pressures the percentages are computed from, and the pressures of
\* every stored row, are never negative.
C10_NonNegative ==
    /\ \A k \in Legs : pressures[k] >= 0
    /\ out.total_pressure >= 0
    /\ \A i \in 1..Len(StoredRows(file)) :
          \A k \in Legs : Cell(load_register(file), i, LEG_LABELS[k]) >= 0

C10_Witness ==
    /\ Len(StoredRows(file)) = 2
    /\ Cell(load_register(file), 1, "BQ (B)") = 116
    /\ pressures["C"] = 116

=============================================================================
